---- MODULE Spec2Model ----
(***************************************************************************)
(* Phonebook.c: a hash table of contacts with separate chaining.           *)
(* The heap is modelled explicitly (node cells, next links, the set of     *)
(* live allocations), strings are sequences of bytes 1..255 (a C string    *)
(* without its terminator), and the hash accumulator is an unsigned long   *)
(* kept as 16-bit limbs so that its wraparound is computed exactly.        *)
(***************************************************************************)
EXTENDS Integers, Sequences, FiniteSets, TLC

VARIABLES ht, heap, allocated, charSigned, call, stdout, hist,
          pc, stdin, eof, nameBuf, phoneBuf, freed, prompts

\* the store, the build, and what the last call did and printed
coreVars == <<ht, heap, allocated, charSigned, call, stdout, hist>>
\* main: its position, the unread input, its two buffers, what teardown
\* released, and the parity of the number of menus printed
mainVars == <<pc, stdin, eof, nameBuf, phoneBuf, freed, prompts>>

vars == <<ht, heap, allocated, charSigned, call, stdout, hist,
          pc, stdin, eof, nameBuf, phoneBuf, freed, prompts>>

\* ---- program constants -------------------------------------------------
TABLE_SIZE == 100
MAX_NAME_LEN == 50
MAX_PHONE_LEN == 15
ULONG_BITS == 64
HASH_INIT == 5381

\* ---- bounds of the model -----------------------------------------------
MaxNodes == 2
\* the cells of the heap when only insert and delete act (ChainSpec)
MaxChain == 3
\* hashFunction alone is exercised on every byte string up to this length
MaxHashLen == 3
\* and on every bucket count up to this one
MaxBuckets == 4

NULL == 0
NodeIds == 1..MaxNodes

\* ---- strings -----------------------------------------------------------
Rep(b, n) == [i \in 1..n |-> b]

\* the inputs: "A"; two bytes >= 128 that fall into the bucket of "A" when
\* plain char is unsigned and into another one when it is signed; a name of
\* exactly MAX_NAME_LEN-1 bytes and one of MAX_NAME_LEN bytes
NameA == <<65>>
NameHigh == <<200, 129>>
NameMax == Rep(97, MAX_NAME_LEN - 1)
NameLong == Rep(97, MAX_NAME_LEN)
Names == {NameA, NameHigh, NameMax, NameLong}

Phone1 == <<49>>
PhoneLong == Rep(57, MAX_PHONE_LEN)
Phones == {Phone1, PhoneLong}

\* strncpy(dst, src, n): n bytes, the source then zero padding
strncpy(src, n) == [i \in 1..n |-> IF i <= Len(src) THEN src[i] ELSE 0]

\* the C string held in a buffer: the bytes before the first NUL
CStr(buf) ==
  LET k == CHOOSE i \in 1..Len(buf) :
             buf[i] = 0 /\ \A j \in 1..(i - 1) : buf[j] # 0
  IN SubSeq(buf, 1, k - 1)

\* a copy of MAX_NAME_LEN bytes instead of MAX_NAME_LEN - 1
StoredName_OffByOne(name) == CStr(Append(strncpy(name, MAX_NAME_LEN), 0))

\* strncpy(newNode->name, name, MAX_NAME_LEN - 1); name[MAX_NAME_LEN-1] = 0
StoredName(name) == CStr(Append(strncpy(name, MAX_NAME_LEN - 1), 0))
StoredPhone(phone) == CStr(Append(strncpy(phone, MAX_PHONE_LEN - 1), 0))

strcmp(a, b) == IF a = b THEN 0 ELSE 1

\* ---- hashFunction ------------------------------------------------------
LimbBase == 65536
NLimbs == ULONG_BITS \div 16

RECURSIVE ToLimbs(_, _)
ToLimbs(v, n) ==
  IF n = 0 THEN <<>> ELSE <<v % LimbBase>> \o ToLimbs(v \div LimbBase, n - 1)

\* int c = *name++ converted to unsigned long: a plain char that is signed
\* sign-extends bytes >= 128
CharLimbs(b, signed) ==
  IF signed /\ b >= 128
  THEN <<LimbBase - (256 - b)>> \o Rep(LimbBase - 1, NLimbs - 1)
  ELSE ToLimbs(b, NLimbs)

\* ((hash << 5) + hash) + c, modulo 2^ULONG_BITS
RECURSIVE HashStepFrom(_, _, _, _)
HashStepFrom(hash, c, i, carry) ==
  IF i > NLimbs THEN <<>>
  ELSE LET v == hash[i] * 32 + hash[i] + c[i] + carry
       IN <<v % LimbBase>> \o HashStepFrom(hash, c, i + 1, v \div LimbBase)

HashStep(hash, b, signed) == HashStepFrom(hash, CharLimbs(b, signed), 1, 0)

\* the while loop over the bytes name[lo..hi], in order; the range is split
\* in two so that the evaluation depth stays logarithmic in the length
RECURSIVE HashLoop(_, _, _, _, _)
HashLoop(hash, name, lo, hi, signed) ==
  IF lo > hi THEN hash
  ELSE IF lo = hi THEN HashStep(hash, name[lo], signed)
  ELSE LET mid == (lo + hi) \div 2
           first == HashLoop(hash, name, lo, mid, signed)
       IN IF Len(first) = NLimbs
          THEN HashLoop(first, name, mid + 1, hi, signed)
          ELSE first

\* a remainder taken by tableSize + 1
LimbsMod_OffByOne(hash, m, i) == hash[1] % (m + 1)

\* hash % tableSize
RECURSIVE LimbsMod(_, _, _)
LimbsMod(hash, m, i) ==
  IF i > NLimbs THEN 0
  ELSE (LimbsMod(hash, m, i + 1) * LimbBase + hash[i]) % m

\* the function on a build whose plain char is signed or not
Djb2(name, tableSize, signed) ==
  LimbsMod(HashLoop(ToLimbs(HASH_INIT, NLimbs), name, 1, Len(name), signed),
           tableSize, 1)

\* the values of Djb2 on the inputs of the model, computed once
HashMemo ==
  [signed \in BOOLEAN |-> [name \in Names |-> Djb2(name, TABLE_SIZE, signed)]]

hashFunction(name, tableSize) ==
  IF name \in Names /\ tableSize = TABLE_SIZE
  THEN HashMemo[charSigned][name]
  ELSE Djb2(name, tableSize, charSigned)

\* ---- the heap ----------------------------------------------------------
\* a cell that is not allocated holds no readable value; it is kept at one
\* fixed value because the program never reads it
Uninit == [name |-> <<>>, phone |-> <<>>, next |-> NULL]

NoCall == [op |-> "none", name |-> <<>>, phone |-> <<>>, ret |-> NULL]

Line(kind, bucket, name, phone) ==
  [kind |-> kind, bucket |-> bucket, name |-> name, phone |-> phone]

\* createHashTable(TABLE_SIZE): calloc leaves every bucket NULL
createHashTable(size) == [size |-> size, table |-> [i \in 0..(size - 1) |-> NULL]]

\* a local array of main that nothing has written yet
Indeterminate == <<-1>>

\* main before its loop: nothing read, name[] and phone[] not initialised
MainVarsInit ==
  /\ pc = "menu"
  /\ stdin = <<>>
  /\ eof = FALSE
  /\ nameBuf = Indeterminate
  /\ phoneBuf = Indeterminate
  /\ freed = <<>>
  /\ prompts = 0

Init ==
  /\ ht = createHashTable(TABLE_SIZE)
  /\ heap = [p \in NodeIds |-> Uninit]
  /\ allocated = {}
  /\ charSigned \in BOOLEAN
  /\ call = NoCall
  /\ stdout = <<>>
  /\ hist = <<>>
  /\ MainVarsInit

\* ---- chains ------------------------------------------------------------
\* the nodes of a chain, head to tail
RECURSIVE Chain(_, _)
Chain(h, p) == IF p = NULL THEN <<>> ELSE <<p>> \o Chain(h, h[p].next)

\* ---- searchContact -----------------------------------------------------
RECURSIVE SearchLoop(_, _, _)
SearchLoop(h, temp, name) ==
  IF temp = NULL THEN NULL
  ELSE IF strcmp(h[temp].name, name) = 0 THEN temp
  ELSE SearchLoop(h, h[temp].next, name)

searchContact(t, h, name) ==
  LET index == hashFunction(name, t.size)
  IN SearchLoop(h, t.table[index], name)

\* ---- insertContact -----------------------------------------------------
\* malloc returns a free cell or NULL; which free cell is immaterial (the
\* program never compares or orders addresses), so it is the lowest one
malloc ==
  LET free == (DOMAIN heap) \ allocated
  IN {NULL} \cup {p \in free : \A q \in free : p <= q}

\* the one early return of insertContact: if (!newNode) { perror; return; }
insertAbandoned(name, phone, newNode) == newNode = NULL

\* an insert that forgets newNode->next = ht->table[index]
insertContact_DropsChain(name, phone) ==
  LET index == hashFunction(name, ht.size)
  IN \E newNode \in malloc :
       IF insertAbandoned(name, phone, newNode)
       THEN /\ stdout' = <<Line("perror", 0, <<>>, <<>>)>>
            /\ call' = [op |-> "insert", name |-> name, phone |-> phone, ret |-> NULL]
            /\ UNCHANGED <<ht, heap, allocated, charSigned, hist>>
       ELSE /\ heap' = [heap EXCEPT ![newNode] =
                          [name |-> StoredName(name),
                           phone |-> StoredPhone(phone),
                           next |-> NULL]]
            /\ ht' = [ht EXCEPT !.table[index] = newNode]
            /\ allocated' = allocated \cup {newNode}
            /\ stdout' = <<Line("added", 0, name, phone)>>
            /\ call' = [op |-> "insert", name |-> name, phone |-> phone, ret |-> newNode]
            /\ hist' = Append(hist, [node |-> newNode, arg |-> name])
            /\ UNCHANGED charSigned

\* an insert that links the new pointer into the bucket before testing it
insertContact_LinksFirst(name, phone) ==
  LET index == hashFunction(name, ht.size)
  IN \E newNode \in malloc :
       IF insertAbandoned(name, phone, newNode)
       THEN /\ ht' = [ht EXCEPT !.table[index] = newNode]
            /\ stdout' = <<Line("perror", 0, <<>>, <<>>)>>
            /\ call' = [op |-> "insert", name |-> name, phone |-> phone, ret |-> NULL]
            /\ UNCHANGED <<heap, allocated, charSigned, hist>>
       ELSE /\ heap' = [heap EXCEPT ![newNode] =
                          [name |-> StoredName(name),
                           phone |-> StoredPhone(phone),
                           next |-> ht.table[index]]]
            /\ ht' = [ht EXCEPT !.table[index] = newNode]
            /\ allocated' = allocated \cup {newNode}
            /\ stdout' = <<Line("added", 0, name, phone)>>
            /\ call' = [op |-> "insert", name |-> name, phone |-> phone, ret |-> newNode]
            /\ hist' = Append(hist, [node |-> newNode, arg |-> name])
            /\ UNCHANGED charSigned

insertContact(name, phone) ==
  LET index == hashFunction(name, ht.size)
  IN \E newNode \in malloc :
       IF insertAbandoned(name, phone, newNode)
       THEN /\ stdout' = <<Line("perror", 0, <<>>, <<>>)>>
            /\ call' = [op |-> "insert", name |-> name, phone |-> phone, ret |-> NULL]
            /\ UNCHANGED <<ht, heap, allocated, charSigned, hist>>
       ELSE /\ heap' = [heap EXCEPT ![newNode] =
                          [name |-> StoredName(name),
                           phone |-> StoredPhone(phone),
                           next |-> ht.table[index]]]
            /\ ht' = [ht EXCEPT !.table[index] = newNode]
            /\ allocated' = allocated \cup {newNode}
            /\ stdout' = <<Line("added", 0, name, phone)>>
            /\ call' = [op |-> "insert", name |-> name, phone |-> phone, ret |-> newNode]
            /\ hist' = Append(hist, [node |-> newNode, arg |-> name])
            /\ UNCHANGED charSigned

\* ---- the search command (main, case 2) ---------------------------------
Search(name) ==
  LET found == searchContact(ht, heap, name)
  IN /\ stdout' = IF found # NULL
                  THEN <<Line("found", 0, heap[found].name, heap[found].phone)>>
                  ELSE <<Line("notfound", 0, name, <<>>)>>
     /\ call' = [op |-> "search", name |-> name, phone |-> <<>>, ret |-> found]
     /\ UNCHANGED <<ht, heap, allocated, charSigned, hist>>

\* ---- deleteContact -----------------------------------------------------
\* a loop that takes the head of the chain without comparing names
DeleteLoop_NoCompare(h, prev, current, name) == <<prev, current>>

\* the while loop: <<prev, current>> when it stops, current = NULL if the
\* chain was exhausted
RECURSIVE DeleteLoop(_, _, _, _)
DeleteLoop(h, prev, current, name) ==
  IF current = NULL THEN <<prev, NULL>>
  ELSE IF strcmp(h[current].name, name) = 0 THEN <<prev, current>>
  ELSE DeleteLoop(h, current, h[current].next, name)

RemoveNode(s, p) == SelectSeq(s, LAMBDA e : e.node # p)

\* prev->next = NULL in place of prev->next = current->next
deleteContact_DropsTail(name) ==
  LET index == hashFunction(name, ht.size)
      r == DeleteLoop(heap, NULL, ht.table[index], name)
      prev == r[1]
      current == r[2]
  IN IF current # NULL
     THEN /\ ht' = IF prev = NULL
                   THEN [ht EXCEPT !.table[index] = heap[current].next]
                   ELSE ht
          /\ heap' = IF prev = NULL
                     THEN [heap EXCEPT ![current] = Uninit]
                     ELSE [heap EXCEPT ![prev].next = NULL,
                                       ![current] = Uninit]
          /\ allocated' = allocated \ {current}
          /\ stdout' = <<Line("deleted", 0, name, <<>>)>>
          /\ call' = [op |-> "delete", name |-> name, phone |-> <<>>, ret |-> current,
                       prev |-> prev, next |-> heap[current].next]
          /\ hist' = RemoveNode(hist, current)
          /\ UNCHANGED charSigned
     ELSE /\ stdout' = <<Line("notfound", 0, name, <<>>)>>
          /\ call' = [op |-> "delete", name |-> name, phone |-> <<>>, ret |-> NULL]
          /\ UNCHANGED <<ht, heap, allocated, charSigned, hist>>

\* the node is freed but the previous one keeps pointing to it
deleteContact_NoUnlink(name) ==
  LET index == hashFunction(name, ht.size)
      r == DeleteLoop(heap, NULL, ht.table[index], name)
      prev == r[1]
      current == r[2]
  IN IF current # NULL
     THEN /\ ht' = IF prev = NULL
                   THEN [ht EXCEPT !.table[index] = heap[current].next]
                   ELSE ht
          /\ heap' = IF prev = NULL
                     THEN [heap EXCEPT ![current] = Uninit]
                     ELSE [heap EXCEPT ![current] = Uninit]
          /\ allocated' = allocated \ {current}
          /\ stdout' = <<Line("deleted", 0, name, <<>>)>>
          /\ call' = [op |-> "delete", name |-> name, phone |-> <<>>, ret |-> current,
                       prev |-> prev, next |-> heap[current].next]
          /\ hist' = RemoveNode(hist, current)
          /\ UNCHANGED charSigned
     ELSE /\ stdout' = <<Line("notfound", 0, name, <<>>)>>
          /\ call' = [op |-> "delete", name |-> name, phone |-> <<>>, ret |-> NULL]
          /\ UNCHANGED <<ht, heap, allocated, charSigned, hist>>

deleteContact(name) ==
  LET index == hashFunction(name, ht.size)
      r == DeleteLoop(heap, NULL, ht.table[index], name)
      prev == r[1]
      current == r[2]
  IN IF current # NULL
     THEN /\ ht' = IF prev = NULL
                   THEN [ht EXCEPT !.table[index] = heap[current].next]
                   ELSE ht
          /\ heap' = IF prev = NULL
                     THEN [heap EXCEPT ![current] = Uninit]
                     ELSE [heap EXCEPT ![prev].next = heap[current].next,
                                       ![current] = Uninit]
          /\ allocated' = allocated \ {current}
          /\ stdout' = <<Line("deleted", 0, name, <<>>)>>
          /\ call' = [op |-> "delete", name |-> name, phone |-> <<>>, ret |-> current,
                       prev |-> prev, next |-> heap[current].next]
          /\ hist' = RemoveNode(hist, current)
          /\ UNCHANGED charSigned
     ELSE /\ stdout' = <<Line("notfound", 0, name, <<>>)>>
          /\ call' = [op |-> "delete", name |-> name, phone |-> <<>>, ret |-> NULL]
          /\ UNCHANGED <<ht, heap, allocated, charSigned, hist>>

\* ---- displayContacts ---------------------------------------------------
\* an if in place of the inner while: only the head of a chain is printed
EntryLines_HeadOnly(h, temp) ==
  IF temp = NULL THEN <<>>
  ELSE <<Line("entry", 0, h[temp].name, h[temp].phone)>>

RECURSIVE EntryLines(_, _)
EntryLines(h, temp) ==
  IF temp = NULL THEN <<>>
  ELSE <<Line("entry", 0, h[temp].name, h[temp].phone)>> \o EntryLines(h, h[temp].next)

\* a body that forgets to clear the empty flag
DisplayBucket_KeepsEmpty(t, h, i, empty) ==
  LET temp == t.table[i]
  IN IF temp # NULL
     THEN <<<<Line("bucket", i, <<>>, <<>>)>> \o EntryLines(h, temp), empty>>
     ELSE <<<<>>, empty>>

\* the body of the for loop for bucket i: <<lines printed, empty flag>>
DisplayBucket(t, h, i, empty) ==
  LET temp == t.table[i]
  IN IF temp # NULL
     THEN <<<<Line("bucket", i, <<>>, <<>>)>> \o EntryLines(h, temp), 0>>
     ELSE <<<<>>, empty>>

\* a loop that runs from the last bucket down to the first
RECURSIVE DisplayLoop_Downwards(_, _, _, _, _)
DisplayLoop_Downwards(t, h, lo, hi, empty) ==
  IF lo > hi THEN <<<<>>, empty>>
  ELSE IF lo = hi THEN DisplayBucket(t, h, lo, empty)
  ELSE LET mid == (lo + hi) \div 2
           b == DisplayLoop_Downwards(t, h, mid + 1, hi, empty)
           a == DisplayLoop_Downwards(t, h, lo, mid, b[2])
       IN <<b[1] \o a[1], a[2]>>

\* the for loop over the buckets lo..hi, in order, threading the empty
\* flag; the range is split in two to keep the evaluation depth small
RECURSIVE DisplayLoop(_, _, _, _, _)
DisplayLoop(t, h, lo, hi, empty) ==
  IF lo > hi THEN <<<<>>, empty>>
  ELSE IF lo = hi THEN DisplayBucket(t, h, lo, empty)
  ELSE LET mid == (lo + hi) \div 2
           a == DisplayLoop(t, h, lo, mid, empty)
           b == DisplayLoop(t, h, mid + 1, hi, a[2])
       IN <<a[1] \o b[1], b[2]>>

displayContacts(t, h) ==
  LET r == DisplayLoop(t, h, 0, t.size - 1, 1)
  IN <<Line("title", 0, <<>>, <<>>)>> \o r[1]
       \o (IF r[2] = 1 THEN <<Line("empty", 0, <<>>, <<>>)>> ELSE <<>>)
       \o <<Line("rule", 0, <<>>, <<>>)>>

Display ==
  /\ stdout' = displayContacts(ht, heap)
  /\ call' = [op |-> "display", name |-> <<>>, phone |-> <<>>, ret |-> NULL]
  /\ UNCHANGED <<ht, heap, allocated, charSigned, hist>>

\* ---- the specification --------------------------------------------------
Insert == \E name \in Names : \E phone \in Phones : insertContact(name, phone)
SearchCmd == \E name \in Names : Search(name)
Delete == \E name \in Names : deleteContact(name)

\* the four operations called directly, main standing still
Next ==
  \/ Insert /\ UNCHANGED mainVars
  \/ SearchCmd /\ UNCHANGED mainVars
  \/ Delete /\ UNCHANGED mainVars
  \/ Display /\ UNCHANGED mainVars

Spec == Init /\ [][Next]_vars

\* ---- insert and delete on a larger heap -----------------------------------
\* chains of three entries need three cells; with search and display left
\* out and one phone the state space stays small
ChainInit ==
  /\ ht = createHashTable(TABLE_SIZE)
  /\ heap = [p \in 1..MaxChain |-> Uninit]
  /\ allocated = {}
  /\ charSigned \in BOOLEAN
  /\ call = NoCall
  /\ stdout = <<>>
  /\ hist = <<>>
  /\ MainVarsInit

ChainInsert == \E name \in Names : insertContact(name, Phone1)

ChainNext ==
  \/ ChainInsert /\ UNCHANGED mainVars
  \/ Delete /\ UNCHANGED mainVars

ChainSpec == ChainInit /\ [][ChainNext]_vars

\* ---- hashFunction on its own ---------------------------------------------
\* the bytes 'A', 127, 128 and 255; every string of at most MaxHashLen of
\* them, and three strings long enough for the accumulator to wrap
HashBytes == {65, 127, 128, 255}
HashInputs ==
  UNION {[1..k -> HashBytes] : k \in 0..MaxHashLen}
    \cup {NameMax, NameLong, Rep(200, 13)}
HashSizes == (1..MaxBuckets) \cup {TABLE_SIZE}

HashInit ==
  /\ ht \in {createHashTable(n) : n \in HashSizes}
  /\ heap = [p \in NodeIds |-> Uninit]
  /\ allocated = {}
  /\ charSigned \in BOOLEAN
  /\ call = NoCall
  /\ stdout = <<>>
  /\ hist = <<>>
  /\ MainVarsInit

HashCall ==
  \E name \in HashInputs :
    /\ call' = [op |-> "hash", name |-> name, phone |-> <<>>,
                ret |-> hashFunction(name, ht.size)]
    /\ UNCHANGED <<ht, heap, allocated, charSigned, stdout, hist>>
    /\ UNCHANGED mainVars

HashSpec == HashInit /\ [][HashCall]_vars

\* ---- standard input as main reads it ---------------------------------------
NL == 10

Range(s) == {s[i] : i \in 1..Len(s)}

\* the position of the first '\n' of s, 0 if it has none
FirstNl(s) ==
  IF NL \in Range(s)
  THEN CHOOSE k \in 1..Len(s) : s[k] = NL /\ \A j \in 1..(k - 1) : s[j] # NL
  ELSE 0

IsSpace(b) == b \in {9, 10, 11, 12, 13, 32}
IsDigit(b) == b \in 48..57
IsSign(b) == b \in {43, 45}

\* s without its leading white space, as a conversion of scanf skips it
SkipSpace(s) ==
  LET k == CHOOSE k \in 0..Len(s) :
             /\ \A j \in 1..k : IsSpace(s[j])
             /\ k = Len(s) \/ ~IsSpace(s[k + 1])
  IN SubSeq(s, k + 1, Len(s))

\* how many digits t has from position from on
DigitRun(t, from) ==
  CHOOSE n \in 0..Len(t) :
    /\ \A j \in from..(from + n - 1) : j <= Len(t) /\ IsDigit(t[j])
    /\ from + n > Len(t) \/ ~IsDigit(t[from + n])

RECURSIVE DecValue(_, _, _)
DecValue(t, lo, hi) ==
  IF lo > hi THEN 0 ELSE DecValue(t, lo, hi - 1) * 10 + (t[hi] - 48)

\* scanf("%d", &choice) on the unread bytes s: what it returns (1, 0 on a
\* matching failure, -1 for EOF), the value converted and the bytes left
scanfInt(s) ==
  LET t == SkipSpace(s)
      d0 == IF t # <<>> /\ IsSign(t[1]) THEN 2 ELSE 1
      n == DigitRun(t, d0)
  IN IF t = <<>> THEN [ret |-> -1, value |-> 0, rest |-> <<>>]
     ELSE IF n = 0 THEN [ret |-> 0, value |-> 0, rest |-> SubSeq(t, d0, Len(t))]
     ELSE [ret |-> 1,
           value |-> (IF t[1] = 45 THEN -1 ELSE 1) * DecValue(t, d0, d0 + n - 1),
           rest |-> SubSeq(t, d0 + n, Len(t))]

\* scanf can return without waiting: a byte follows what it converts
ScanReady(s) ==
  LET t == SkipSpace(s)
      d0 == IF t # <<>> /\ IsSign(t[1]) THEN 2 ELSE 1
  IN t # <<>> /\ d0 + DigitRun(t, d0) <= Len(t)

\* clearInputBuffer: getchar until '\n' or EOF
clearInputBuffer(s) ==
  IF FirstNl(s) = 0 THEN <<>> ELSE SubSeq(s, FirstNl(s) + 1, Len(s))

\* fgets(buf, n, stdin) with bytes to read: at most n-1 of them, stopping
\* after a '\n'
fgets(s, n) ==
  LET k == FirstNl(s)
      take == IF k # 0 /\ k <= n - 1 THEN k
              ELSE IF Len(s) < n - 1 THEN Len(s) ELSE n - 1
  IN [buf |-> SubSeq(s, 1, take), rest |-> SubSeq(s, take + 1, Len(s))]

FgetsReady(s, n) == FirstNl(s) # 0 \/ Len(s) >= n - 1

\* buf[strcspn(buf, "\n")] = 0
StripNl(buf) ==
  IF FirstNl(buf) = 0 THEN buf ELSE SubSeq(buf, 1, FirstNl(buf) - 1)

\* what an array nobody wrote can hold when it is read as a string: nothing,
\* or bytes that run past its end without a terminator
GarbageName == {<<>>, NameLong}
GarbagePhone == {<<>>, PhoneLong}

\* the string main passes on after fgets(buf, n, stdin) and the strcspn line:
\* fgets returns NULL at end of input and leaves buf as it was, and main
\* does not look at what fgets returns
ReadField(s, n, old, garbage) ==
  IF s # <<>> THEN {StripNl(fgets(s, n).buf)}
  ELSE IF old = Indeterminate THEN garbage
  ELSE {old}

RestAfterField(s, n) == IF s # <<>> THEN fgets(s, n).rest ELSE <<>>

\* ---- the input the user supplies -----------------------------------------
\* a line of ExtraLen bytes more than name[] and phone[] take together
ExtraLen == 2
LongLine == Rep(97, (MAX_NAME_LEN - 1) + (MAX_PHONE_LEN - 1) + ExtraLen) \o <<NL>>

\* at the menu: the five choices, a line that is no number, and a 5 whose
\* line is not finished: the input ends there, or goes on and makes a number
\* that is no choice
MenuChunks ==
  {<<48 + c, NL>> : c \in 1..5} \cup {<<120, NL>>, <<53>>}
\* at a name or phone prompt
TextChunks == {NameA \o <<NL>>, LongLine}

\* main is inside a read that has to wait for more bytes
Blocked ==
  /\ ~eof
  /\ CASE pc = "menu" ->
            ~(ScanReady(stdin) /\ FirstNl(scanfInt(stdin).rest) # 0)
       [] pc \in {"addName", "searchName", "deleteName"} ->
            ~FgetsReady(stdin, MAX_NAME_LEN)
       [] pc = "addPhone" -> ~FgetsReady(stdin, MAX_PHONE_LEN)
       [] OTHER -> FALSE

Feed ==
  /\ Blocked
  /\ \E chunk \in (IF pc = "menu" THEN MenuChunks ELSE TextChunks) :
       /\ FirstNl(chunk) # 0 \/ stdin = <<>>
       /\ stdin' = stdin \o chunk
  /\ UNCHANGED <<pc, eof, nameBuf, phoneBuf, freed, prompts>>
  /\ UNCHANGED coreVars

\* the input ends
Close ==
  /\ Blocked
  /\ eof' = TRUE
  /\ UNCHANGED <<pc, stdin, nameBuf, phoneBuf, freed, prompts>>
  /\ UNCHANGED coreVars

\* ---- freeHashTable -----------------------------------------------------
Released(kind, id) == [kind |-> kind, id |-> id]

RECURSIVE FreeLoop(_, _, _, _)
\* the nodes freed by the buckets lo..hi, in the order of the calls to free
FreeLoop(t, h, lo, hi) ==
  IF lo > hi THEN <<>>
  ELSE IF lo = hi THEN Chain(h, t.table[lo])
  ELSE LET mid == (lo + hi) \div 2
           first == FreeLoop(t, h, lo, mid)
       IN IF Len(first) >= 0
          THEN first \o FreeLoop(t, h, mid + 1, hi)
          ELSE first

\* a teardown that frees the head of each bucket only
freeHashTable_HeadsOnly(t, h) ==
  LET nodes == SelectSeq(FreeLoop(t, h, 0, t.size - 1),
                         LAMBDA p : \E i \in 0..(t.size - 1) : t.table[i] = p)
  IN [i \in 1..Len(nodes) |-> Released("node", nodes[i])]
       \o <<Released("table", 0), Released("ht", 0)>>

\* every free() of freeHashTable, in order
freeHashTable(t, h) ==
  LET nodes == FreeLoop(t, h, 0, t.size - 1)
  IN [i \in 1..Len(nodes) |-> Released("node", nodes[i])]
       \o <<Released("table", 0), Released("ht", 0)>>

\* ---- main ----------------------------------------------------------------
MenuCall(op, choice) == [op |-> op, name |-> <<>>, phone |-> <<>>, ret |-> choice]

MenuReady ==
  /\ pc = "menu"
  /\ ~Blocked
  /\ prompts' = 1 - prompts

\* scanf did not convert a number: lines 226-230
MainBadInput ==
  /\ MenuReady
  /\ scanfInt(stdin).ret # 1
  /\ stdin' = clearInputBuffer(scanfInt(stdin).rest)
  /\ stdout' = <<Line("invalid input", 0, <<>>, <<>>)>>
  /\ call' = MenuCall("badinput", scanfInt(stdin).ret)
  /\ UNCHANGED <<pc, eof, nameBuf, phoneBuf, freed>>
  /\ UNCHANGED <<ht, heap, allocated, charSigned, hist>>

\* choices 1, 2 and 3 print a prompt and go on to read a name
MainChoose ==
  /\ MenuReady
  /\ scanfInt(stdin).ret = 1
  /\ scanfInt(stdin).value \in 1..3
  /\ stdin' = clearInputBuffer(scanfInt(stdin).rest)
  /\ pc' = CASE scanfInt(stdin).value = 1 -> "addName"
             [] scanfInt(stdin).value = 2 -> "searchName"
             [] scanfInt(stdin).value = 3 -> "deleteName"
  /\ stdout' = <<Line("prompt", 0, <<>>, <<>>)>>
  /\ call' = MenuCall("choose", scanfInt(stdin).value)
  /\ UNCHANGED <<eof, nameBuf, phoneBuf, freed>>
  /\ UNCHANGED <<ht, heap, allocated, charSigned, hist>>

MainDisplay ==
  /\ MenuReady
  /\ scanfInt(stdin).ret = 1
  /\ scanfInt(stdin).value = 4
  /\ stdin' = clearInputBuffer(scanfInt(stdin).rest)
  /\ Display
  /\ UNCHANGED <<pc, eof, nameBuf, phoneBuf, freed>>

MainInvalidChoice ==
  /\ MenuReady
  /\ scanfInt(stdin).ret = 1
  /\ scanfInt(stdin).value \notin 1..5
  /\ stdin' = clearInputBuffer(scanfInt(stdin).rest)
  /\ stdout' = <<Line("invalid choice", 0, <<>>, <<>>)>>
  /\ call' = MenuCall("invalid", scanfInt(stdin).value)
  /\ UNCHANGED <<pc, eof, nameBuf, phoneBuf, freed>>
  /\ UNCHANGED <<ht, heap, allocated, charSigned, hist>>

\* choice 5: freeHashTable(phonebook); return 0
MainExit ==
  /\ MenuReady
  /\ scanfInt(stdin).ret = 1
  /\ scanfInt(stdin).value = 5
  /\ stdin' = clearInputBuffer(scanfInt(stdin).rest)
  /\ freed' = freed \o freeHashTable(ht, heap)
  /\ LET gone == {e.id : e \in {x \in Range(freeHashTable(ht, heap)) : x.kind = "node"}}
     IN /\ allocated' = allocated \ gone
        /\ heap' = [p \in DOMAIN heap |-> IF p \in gone THEN Uninit ELSE heap[p]]
  /\ hist' = <<>>
  /\ stdout' = <<Line("exiting", 0, <<>>, <<>>), Line("freed", 0, <<>>, <<>>)>>
  /\ call' = MenuCall("exit", scanfInt(stdin).value)
  /\ pc' = "done"
  /\ UNCHANGED <<ht, charSigned, eof, nameBuf, phoneBuf>>

\* case 1, the name: fgets(name, MAX_NAME_LEN, stdin) and the strcspn line
MainAddName ==
  /\ pc = "addName"
  /\ ~Blocked
  /\ nameBuf' \in ReadField(stdin, MAX_NAME_LEN, nameBuf, GarbageName)
  /\ stdin' = RestAfterField(stdin, MAX_NAME_LEN)
  /\ pc' = "addPhone"
  /\ stdout' = <<Line("prompt", 0, <<>>, <<>>)>>
  /\ call' = NoCall
  /\ UNCHANGED <<eof, phoneBuf, freed, prompts>>
  /\ UNCHANGED <<ht, heap, allocated, charSigned, hist>>

\* case 1, the phone, and the call of insertContact
MainAddPhone ==
  /\ pc = "addPhone"
  /\ ~Blocked
  /\ phoneBuf' \in ReadField(stdin, MAX_PHONE_LEN, phoneBuf, GarbagePhone)
  /\ stdin' = RestAfterField(stdin, MAX_PHONE_LEN)
  /\ insertContact(nameBuf, phoneBuf')
  /\ pc' = "menu"
  /\ UNCHANGED <<eof, nameBuf, freed, prompts>>

\* case 2
MainSearch ==
  /\ pc = "searchName"
  /\ ~Blocked
  /\ nameBuf' \in ReadField(stdin, MAX_NAME_LEN, nameBuf, GarbageName)
  /\ stdin' = RestAfterField(stdin, MAX_NAME_LEN)
  /\ Search(nameBuf')
  /\ pc' = "menu"
  /\ UNCHANGED <<eof, phoneBuf, freed, prompts>>

\* case 3
MainDelete ==
  /\ pc = "deleteName"
  /\ ~Blocked
  /\ nameBuf' \in ReadField(stdin, MAX_NAME_LEN, nameBuf, GarbageName)
  /\ stdin' = RestAfterField(stdin, MAX_NAME_LEN)
  /\ deleteContact(nameBuf')
  /\ pc' = "menu"
  /\ UNCHANGED <<eof, phoneBuf, freed, prompts>>

MainNext ==
  \/ Feed
  \/ Close
  \/ MainBadInput
  \/ MainChoose
  \/ MainDisplay
  \/ MainInvalidChoice
  \/ MainExit
  \/ MainAddName
  \/ MainAddPhone
  \/ MainSearch
  \/ MainDelete

MainSpec == Init /\ [][MainNext]_vars

\* ---- notions used by the properties -------------------------------------
Buckets == 0..(ht.size - 1)

\* the first n bytes of s
Prefix(s, n) == SubSeq(s, 1, IF Len(s) < n THEN Len(s) ELSE n)

\* the live entries whose stored name is n
StoredAs(h, live, n) == {p \in live : h[p].name = n}

\* the position of the first entry named n in a chain, 0 if there is none
FirstNamed(h, chain, n) ==
  IF \E k \in 1..Len(chain) : h[chain[k]].name = n
  THEN CHOOSE k \in 1..Len(chain) :
         h[chain[k]].name = n /\ \A j \in 1..(k - 1) : h[chain[j]].name # n
  ELSE 0

EntryLinesOf(lines) == SelectSeq(lines, LAMBDA l : l.kind = "entry")

\* how often the pair (name, phone) is printed, and how often it is stored
Printed(lines, name, phone) ==
  Cardinality({k \in 1..Len(lines) :
                 lines[k].kind = "entry" /\ lines[k].name = name
                                         /\ lines[k].phone = phone})
Stored(name, phone) ==
  Cardinality({p \in allocated : heap[p].name = name /\ heap[p].phone = phone})

\* C1: after insert(name, phone) has succeeded, search(name) with the same
\* argument returns an entry, and its phone is the phone insert stored; this
\* is claimed for every name, names longer than 49 bytes included.
C1_InsertThenSearch ==
  (call.op = "insert" /\ call.ret # NULL) =>
    LET found == searchContact(ht, heap, call.name)
    IN found # NULL /\ heap[found].phone = StoredPhone(call.phone)

\* C2: every entry reachable from bucket i has a stored name that hashes to
\* i, and no entry is reachable from two buckets.
C2_BucketInvariant ==
  /\ \A i \in Buckets :
       LET chain == Chain(heap, ht.table[i])
       IN \A k \in 1..Len(chain) :
            hashFunction(heap[chain[k]].name, ht.size) = i
  /\ \A i, j \in Buckets :
       i # j =>
         LET ci == Chain(heap, ht.table[i])
             cj == Chain(heap, ht.table[j])
         IN \A a \in 1..Len(ci) : \A b \in 1..Len(cj) : ci[a] # cj[b]

\* C3: duplicate names are a stack per name: for every name n under which a
\* live entry was inserted, search(n) returns the most recently inserted
\* entry of that name that has not been deleted.
C3_PerNameStack ==
  \A n \in Names :
    LET mine == SelectSeq(hist, LAMBDA e : e.arg = n)
    IN mine # <<>> => searchContact(ht, heap, n) = mine[Len(mine)].node

\* C4: delete(name) when no stored entry is named name reports not-found
\* and leaves every bucket head and every chain as it was.
C4_DeleteAbsentNoChange ==
  [][\A n \in Names :
       (deleteContact(n) /\ StoredAs(heap, allocated, n) = {}) =>
         /\ call'.ret = NULL
         /\ stdout' = <<Line("notfound", 0, n, <<>>)>>
         /\ ht' = ht /\ heap' = heap /\ allocated' = allocated]_vars

\* C4 witness: a delete of an absent name walked a non-empty chain and
\* reported not-found.
C4_Witness ==
  /\ call.op = "delete" /\ call.ret = NULL
  /\ StoredAs(heap, allocated, call.name) = {}
  /\ ht.table[hashFunction(call.name, ht.size)] # NULL

\* C5: a successful delete(name) removes exactly one entry, the first of
\* its bucket's chain whose stored name is name, and leaves the later ones;
\* with k entries of that name stored, delete succeeds exactly when k > 0,
\* so k deletes succeed and the next reports not-found.
C5_DeleteExactlyOne ==
  [][\A n \in Names :
       deleteContact(n) =>
         LET same == StoredAs(heap, allocated, n)
             chain == Chain(heap, ht.table[hashFunction(n, ht.size)])
             k == FirstNamed(heap, chain, n)
         IN /\ (call'.ret # NULL) <=> (same # {})
            /\ (call'.ret # NULL) =>
                 /\ Cardinality(allocated') = Cardinality(allocated) - 1
                 /\ k > 0 /\ call'.ret = chain[k]
                 /\ StoredAs(heap', allocated', n) = same \ {call'.ret}]_vars

\* C6: when exactly one stored entry is named n, delete(n) succeeds, a
\* search(n) right after finds nothing, and search(m) for every other
\* stored name m returns the entry it returned before.
C6_DeleteSingle ==
  [][\A n \in Names :
       (deleteContact(n) /\ Cardinality(StoredAs(heap, allocated, n)) = 1) =>
         /\ call'.ret # NULL
         /\ searchContact(ht', heap', n) = NULL
         /\ \A q \in allocated :
              heap[q].name # n =>
                LET before == searchContact(ht, heap, heap[q].name)
                    after == searchContact(ht', heap', heap[q].name)
                IN after = before /\
                   (before # NULL => heap'[after].phone = heap[before].phone)]_vars

\* C7: displayContacts prints every stored entry exactly once: as many
\* entry lines as there are live entries, and every (name, phone) pair as
\* often as it is stored.
C7_EnumerateAll ==
  call.op = "display" =>
    /\ Len(EntryLinesOf(stdout)) = Cardinality(allocated)
    /\ \A p \in allocated :
         Printed(stdout, heap[p].name, heap[p].phone)
           = Stored(heap[p].name, heap[p].phone)
    /\ \A k \in 1..Len(stdout) :
         stdout[k].kind = "entry" =>
           Printed(stdout, stdout[k].name, stdout[k].phone)
             = Stored(stdout[k].name, stdout[k].phone)

\* C7 witness: a display of a store that holds two entries in one chain.
C7_Witness ==
  /\ call.op = "display"
  /\ \E i \in Buckets : Len(Chain(heap, ht.table[i])) = 2

\* C8: displayContacts prints the empty line exactly when no bucket holds
\* an entry, and every bucket header it prints is followed by an entry.
C8_EmptyIffNoEntries ==
  call.op = "display" =>
    /\ (\E k \in 1..Len(stdout) : stdout[k].kind = "empty")
         <=> (\A i \in Buckets : ht.table[i] = NULL)
    /\ (\E k \in 1..Len(stdout) : stdout[k].kind = "empty")
         <=> (allocated = {})
    /\ \A k \in 1..Len(stdout) :
         stdout[k].kind = "bucket" =>
           k < Len(stdout) /\ stdout[k + 1].kind = "entry"

\* C8 witness: a display of a store without entries printed the empty line.
C8_Witness ==
  /\ call.op = "display"
  /\ allocated = {}
  /\ \E k \in 1..Len(stdout) : stdout[k].kind = "empty"

\* C9: the entry insert creates holds the first 49 bytes of the name and
\* the first 14 bytes of the phone (the whole input when it is shorter), and
\* insert is abandoned only when malloc returns NULL, never for the length
\* of an input.
C9_Truncation ==
  /\ (call.op = "insert" /\ call.ret # NULL) =>
       /\ heap[call.ret].name = Prefix(call.name, 49)
       /\ heap[call.ret].phone = Prefix(call.phone, 14)
  /\ (call.op = "insert" /\ call.ret = NULL) =>
       stdout = <<Line("perror", 0, <<>>, <<>>)>>
  /\ \A n \in Names : \A ph \in Phones : \A p \in NodeIds :
       ~insertAbandoned(n, ph, p)

\* C9 witness: an insert of an over-long name and an over-long phone
\* succeeded.
C9_Witness ==
  /\ call.op = "insert" /\ call.ret # NULL
  /\ Len(call.name) > 49 /\ Len(call.phone) > 14

\* C10: the success message of insert shows the name and the phone as they
\* are stored in the new entry.
C10_ReportStored ==
  (call.op = "insert" /\ call.ret # NULL) =>
    /\ stdout[1].name = heap[call.ret].name
    /\ stdout[1].phone = heap[call.ret].phone

\* C11: when malloc fails, insert is abandoned: bucket heads, chains and
\* allocations are what they were, no success line is printed, the failure
\* is reported (perror), and nothing the later operations read has changed.
C11_FailedInsertNoChange ==
  [][\A n \in Names : \A ph \in Phones :
       (call'.op = "insert" /\ call'.ret = NULL /\ insertContact(n, ph)) =>
         /\ ht' = ht /\ heap' = heap /\ allocated' = allocated
         /\ hist' = hist /\ charSigned' = charSigned
         /\ stdout' = <<Line("perror", 0, <<>>, <<>>)>>]_vars

\* C11 witness: malloc failed for an insert into a bucket that holds an
\* entry, while a cell was still free.
C11_Witness ==
  /\ call.op = "insert" /\ call.ret = NULL
  /\ ht.table[hashFunction(call.name, ht.size)] # NULL
  /\ allocated # NodeIds

\* C12: for every string and every bucket count n >= 1 the index that
\* hashFunction returns lies in 0..n-1, so it is an index of the bucket
\* array (that equal strings give equal indices is how the function is
\* built: it reads nothing but its bytes).
C12_HashInRange ==
  call.op = "hash" =>
    /\ 0 <= call.ret /\ call.ret < ht.size
    /\ call.ret \in DOMAIN ht.table

\* C12 witness: a string long enough to wrap the accumulator was hashed
\* into a table of more than one bucket.
C12_Witness ==
  /\ call.op = "hash" /\ Len(call.name) >= 13
  /\ ht.size > 1 /\ call.ret > 0

\* C13: hashFunction is the reference hash: from 5381, for each byte taken
\* as its value 0..255, accumulator*33 + byte modulo 2^64, and at the end
\* modulo the bucket count.
C13_ReferenceHash ==
  call.op = "hash" => call.ret = Djb2(call.name, ht.size, FALSE)

\* the entries of a chain, head to tail, with what they hold
ChainData(h, p) ==
  LET chain == Chain(h, p)
  IN [k \in 1..Len(chain) |->
        [node |-> chain[k], name |-> h[chain[k]].name, phone |-> h[chain[k]].phone]]

\* C14: a successful delete(name) changes only the chain of bucket
\* hash(name): all other chains are as before, and the chain itself is the
\* old one without the removed entry, the others in their old order.
C14_DeleteFrame ==
  [][\A n \in Names :
       (call'.op = "delete" /\ call'.ret # NULL /\ deleteContact(n)) =>
         LET idx == hashFunction(n, ht.size)
         IN /\ \A i \in Buckets \ {idx} :
                 ChainData(heap', ht'.table[i]) = ChainData(heap, ht.table[i])
            /\ ChainData(heap', ht'.table[idx])
                 = SelectSeq(ChainData(heap, ht.table[idx]),
                             LAMBDA e : e.node # call'.ret)
            /\ Len(Chain(heap', ht'.table[idx]))
                 = Len(Chain(heap, ht.table[idx])) - 1]_vars

\* C14 witness: the entry removed had a predecessor and a successor in its
\* chain.
C14_Witness ==
  /\ call.op = "delete" /\ call.ret # NULL
  /\ call.prev # NULL /\ call.next # NULL

\* C15: a successful insert(name, phone) puts one new entry in front of
\* the chain of bucket hash(name), the old entries following in their old
\* order; all other chains are as before and there is one entry more.
C15_InsertFrame ==
  [][\A n \in Names : \A ph \in Phones :
       (call'.op = "insert" /\ call'.ret # NULL /\ insertContact(n, ph)) =>
         LET idx == hashFunction(n, ht.size)
             new == [node |-> call'.ret, name |-> StoredName(n),
                     phone |-> StoredPhone(ph)]
         IN /\ call'.ret \notin allocated
            /\ \A i \in Buckets \ {idx} :
                 ChainData(heap', ht'.table[i]) = ChainData(heap, ht.table[i])
            /\ ChainData(heap', ht'.table[idx])
                 = <<new>> \o ChainData(heap, ht.table[idx])
            /\ Cardinality(allocated') = Cardinality(allocated) + 1]_vars

\* C15 witness: an insert went in front of a chain of two.
C15_Witness ==
  /\ call.op = "insert" /\ call.ret # NULL
  /\ ht.table[hashFunction(call.name, ht.size)] = call.ret
  /\ Len(Chain(heap, call.ret)) = 3

\* a walk of at most n links from p that stops at NULL
RECURSIVE EndsInNull(_, _, _)
EndsInNull(h, p, n) ==
  IF p = NULL THEN TRUE
  ELSE IF n = 0 THEN FALSE
  ELSE EndsInNull(h, h[p].next, n - 1)

\* the nodes met on a walk of at most n links from p
RECURSIVE Walk(_, _, _)
Walk(h, p, n) ==
  IF p = NULL \/ n = 0 THEN <<>> ELSE <<p>> \o Walk(h, h[p].next, n - 1)

\* C18: before teardown the live allocations are exactly the nodes
\* reachable from the bucket heads, every one at exactly one place of
\* exactly one chain, every chain ends in NULL, and no freed cell is
\* reachable.
C18_Ownership ==
  LET cells == Cardinality(DOMAIN heap)
      At(p) == {<<i, k>> \in Buckets \X (1..cells) :
                  LET w == Walk(heap, ht.table[i], cells)
                  IN k <= Len(w) /\ w[k] = p}
  IN /\ \A i \in Buckets : EndsInNull(heap, ht.table[i], cells)
     /\ \A p \in allocated : Cardinality(At(p)) = 1
     /\ \A p \in (DOMAIN heap) \ allocated : At(p) = {}
     /\ \A p \in allocated : heap[p].next \in allocated \cup {NULL}

\* C18 witness: an entry was deleted and freed, and the two entries left
\* share one chain.
C18_Witness ==
  /\ call.op = "delete" /\ call.ret # NULL
  /\ Cardinality(allocated) = 2
  /\ \E i \in Buckets : Len(Chain(heap, ht.table[i])) = 2

\* the elements of a finite set of numbers in ascending order
RECURSIVE Ascending(_)
Ascending(S) ==
  IF S = {} THEN <<>>
  ELSE LET m == CHOOSE x \in S : \A y \in S : x <= y
       IN <<m>> \o Ascending(S \ {m})

\* the header of bucket i and its entries from head to tail
BucketLines(t, h, i) ==
  LET data == ChainData(h, t.table[i])
  IN <<Line("bucket", i, <<>>, <<>>)>> \o
       [k \in 1..Len(data) |-> Line("entry", 0, data[k].name, data[k].phone)]

RECURSIVE ConcatBuckets(_, _, _)
ConcatBuckets(t, h, order) ==
  IF order = <<>> THEN <<>>
  ELSE BucketLines(t, h, Head(order)) \o ConcatBuckets(t, h, Tail(order))

\* what an enumeration in bucket order, chain order has to print
ExpectedDisplay(t, h) ==
  LET used == {i \in 0..(t.size - 1) : t.table[i] # NULL}
  IN <<Line("title", 0, <<>>, <<>>)>>
       \o ConcatBuckets(t, h, Ascending(used))
       \o (IF used = {} THEN <<Line("empty", 0, <<>>, <<>>)>> ELSE <<>>)
       \o <<Line("rule", 0, <<>>, <<>>)>>

\* the rank of a live node in the order of insertion
InsertedAt(p) == CHOOSE k \in 1..Len(hist) : hist[k].node = p

\* C16: displayContacts prints the buckets in index order and each chain
\* from head to tail, which is most recently inserted first; display and
\* search leave the store as it is, so a second enumeration prints the same.
C16_EnumerateOrder ==
  [][/\ (call'.op = "display" /\ Display) =>
          /\ stdout' = ExpectedDisplay(ht, heap)
          /\ ht' = ht /\ heap' = heap /\ allocated' = allocated
          /\ \A i \in Buckets :
               LET chain == Chain(heap, ht.table[i])
               IN \A k, l \in 1..Len(chain) :
                    k < l => InsertedAt(chain[k]) > InsertedAt(chain[l])
     /\ \A n \in Names :
          (call'.op = "search" /\ Search(n)) =>
            (ht' = ht /\ heap' = heap /\ allocated' = allocated)]_vars

\* C16 witness: a display of a store with entries in two buckets.
C16_Witness ==
  /\ call.op = "display"
  /\ Cardinality({i \in Buckets : ht.table[i] # NULL}) = 2

\* ---- C17 ------------------------------------------------------------------
\* the nodes some bucket's chain reaches
Entries(t, h) == UNION {Range(Chain(h, t.table[i])) : i \in 0..(t.size - 1)}

\* C17: memory is released only by the step that read the choice Exit, and
\* by it once: it frees every entry of every chain exactly once, then the
\* bucket array, then the store, and leaves nothing allocated; main ends
\* with that step and takes no step after it, so no insert, search, delete
\* or enumeration follows the teardown
C17_TeardownOnce ==
  [][/\ pc # "done"
     /\ (freed' # freed \/ pc' = "done") =>
          LET n == Len(freed') - 2
          IN /\ pc = "menu" /\ pc' = "done"
             /\ call'.op = "exit" /\ call'.ret = 5
             /\ freed = <<>>
             /\ n = Cardinality(Entries(ht, heap))
             /\ \A i \in 1..n : freed'[i].kind = "node"
             /\ {freed'[i].id : i \in 1..n} = Entries(ht, heap)
             /\ freed'[n + 1].kind = "table"
             /\ freed'[n + 2].kind = "ht"
             /\ allocated' = {}
     /\ call'.op = "exit" => freed' # freed
     /\ call'.op \in {"insert", "search", "delete", "display"} => freed' = <<>>]_vars

\* Exit was chosen with two entries in the store
C17_Witness == pc = "done" /\ Len(freed) = 4

\* ---- C19 ------------------------------------------------------------------
\* C19: every pass of the loop of main either takes bytes from the input or
\* returns, so main cannot go on printing its menu when the input has ended
C19_EveryPassReads ==
  [][prompts' # prompts => (stdin' # stdin \/ pc' = "done")]_vars

\* ---- C20 ------------------------------------------------------------------
\* C20: the name main passes to insert, search or delete has at most
\* MAX_NAME_LEN - 1 bytes and the phone it passes to insert at most
\* MAX_PHONE_LEN - 1, neither holds a line terminator, and so the entry an
\* insert makes holds the name and phone it was given
C20_ArgumentsFit ==
  call.op \in {"insert", "search", "delete"} =>
    /\ Len(call.name) <= MAX_NAME_LEN - 1
    /\ NL \notin Range(call.name)
    /\ call.op = "insert" =>
         /\ Len(call.phone) <= MAX_PHONE_LEN - 1
         /\ NL \notin Range(call.phone)
         /\ call.ret # NULL =>
              /\ heap[call.ret].name = call.name
              /\ heap[call.ret].phone = call.phone
====
